---------------------------- MODULE Spec2Model ----------------------------
(***************************************************************************)
(* Model of src/food.py: the FoodSupplyChain registry (products,           *)
(* locations, inventory, orders, deliveries) and its operations.           *)
(*                                                                         *)
(* Python dicts keep insertion order.  Where the code iterates a dict the  *)
(* model keeps a sequence (inventory, an order's items); where the code    *)
(* only looks keys up the model keeps a function (products, locations,     *)
(* orders, deliveries).  Object references (InventoryItem.product,         *)
(* Delivery.order) are the referenced object's key: the registry never     *)
(* removes or replaces an object, so the key names the object.             *)
(* A Product and a Location carry their id and name; category, expiry_date *)
(* and location_type, like an order's order_date and a delivery's          *)
(* delivery_date and tracking_id, are read by no operation and left out.   *)
(***************************************************************************)
EXTENDS Integers, Sequences, FiniteSets, TLC

VARIABLES products, locations, inventory, orders, deliveries, last

vars == <<products, locations, inventory, orders, deliveries, last>>

\* The registry proper: everything but the record of the last call.
registry == <<products, locations, inventory, orders, deliveries>>

---------------------------------------------------------------------------
\* Bounds of the model.

\* Largest number of orders placed and of deliveries scheduled under Spec.
MaxOrders == 2
MaxDeliveries == 2
\* Largest number of orders placed under SpecStock.
MaxStockOrders == 1
\* Largest number of orders placed under SpecDelivery.
MaxTrackedOrders == 1
\* Largest quantity an InventoryItem is let to hold.
MaxQty == 2

---------------------------------------------------------------------------
\* Helpers for dicts.

EmptyDict == [k \in {} |-> "None"]

\* d[k] = v of a Python dict looked up by key only.
Put(d, k, v) == [x \in (DOMAIN d) \cup {k} |-> IF x = k THEN v ELSE d[x]]

\* f"ORD-{n}" and f"DEL-{n}".
OrderId(n) == "ORD-" \o ToString(n)
DeliveryId(n) == "DEL-" \o ToString(n)

\* The record of the call just made: its name, its arguments, what it returned.
Call(op, args, ret) == [op |-> op, args |-> args, ret |-> ret]

---------------------------------------------------------------------------
Init ==
    /\ products = EmptyDict
    /\ locations = EmptyDict
    /\ inventory = <<>>
    /\ orders = EmptyDict
    /\ deliveries = EmptyDict
    /\ last = Call("__init__", <<>>, "None")

\* add_product storing the product whether or not its id is registered.
add_product_overwrite(product) ==
    /\ products' = Put(products, product.product_id, product)
    /\ last' = Call("add_product", <<product>>, "None")
    /\ UNCHANGED <<locations, inventory, orders, deliveries>>

\* FoodSupplyChain.add_product; product is a Product object.
add_product(product) ==
    /\ IF product.product_id \notin DOMAIN products
       THEN products' = Put(products, product.product_id, product)
       ELSE UNCHANGED products
    /\ last' = Call("add_product", <<product>>, "None")
    /\ UNCHANGED <<locations, inventory, orders, deliveries>>

\* FoodSupplyChain.add_location; location is a Location object.
add_location(location) ==
    /\ IF location.location_id \notin DOMAIN locations
       THEN locations' = Put(locations, location.location_id, location)
       ELSE UNCHANGED locations
    /\ last' = Call("add_location", <<location>>, "None")
    /\ UNCHANGED <<products, inventory, orders, deliveries>>

\* Position of key (product_id, location_id) in the inventory dict, 0 if absent.
InventoryIndex(inv, product_id, location_id) ==
    LET S == {i \in 1..Len(inv) : inv[i].product_id = product_id
                                   /\ inv[i].location_id = location_id}
    IN IF S = {} THEN 0 ELSE CHOOSE i \in S : TRUE

\* AddInventoryResult replacing the quantity of an existing item instead of
\* adding to it.
AddInventoryResultReplace(inv, product_id, location_id, quantity) ==
    IF product_id \in DOMAIN products /\ location_id \in DOMAIN locations
    THEN LET i == InventoryIndex(inv, product_id, location_id)
         IN IF i = 0
            THEN Append(inv, [product_id |-> product_id,
                              location_id |-> location_id,
                              quantity |-> quantity])
            ELSE [inv EXCEPT ![i].quantity = quantity]
    ELSE inv

\* AddInventoryResult requiring only one of the two ids to be registered.
AddInventoryResultEither(inv, product_id, location_id, quantity) ==
    IF product_id \in DOMAIN products \/ location_id \in DOMAIN locations
    THEN LET i == InventoryIndex(inv, product_id, location_id)
         IN IF i = 0
            THEN Append(inv, [product_id |-> product_id,
                              location_id |-> location_id,
                              quantity |-> quantity])
            ELSE [inv EXCEPT ![i].quantity = @ + quantity]
    ELSE inv

\* The inventory dict after add_inventory.
AddInventoryResult(inv, product_id, location_id, quantity) ==
    IF product_id \in DOMAIN products /\ location_id \in DOMAIN locations
    THEN LET i == InventoryIndex(inv, product_id, location_id)
         IN IF i = 0
            THEN Append(inv, [product_id |-> product_id,
                              location_id |-> location_id,
                              quantity |-> quantity])
            ELSE [inv EXCEPT ![i].quantity = @ + quantity]
    ELSE inv

\* FoodSupplyChain.add_inventory
add_inventory(product_id, location_id, quantity) ==
    /\ inventory' = AddInventoryResult(inventory, product_id, location_id, quantity)
    /\ last' = Call("add_inventory", <<product_id, location_id, quantity>>, "None")
    /\ UNCHANGED <<products, locations, orders, deliveries>>

\* FoodSupplyChain.get_inventory
get_inventory(product_id, location_id) ==
    LET i == InventoryIndex(inventory, product_id, location_id)
    IN IF i = 0 THEN "None" ELSE inventory[i]

\* Order.add_item on the order's items dict.
add_item(items, product_id, quantity) ==
    LET S == {i \in 1..Len(items) : items[i][1] = product_id}
    IN IF S # {}
       THEN LET i == CHOOSE i \in S : TRUE
            IN [items EXCEPT ![i] = <<product_id, @[2] + quantity>>]
       ELSE Append(items, <<product_id, quantity>>)

\* PlaceItems giving up at the first unregistered product: the line items
\* after it are not added.
RECURSIVE PlaceItemsAbort(_, _, _)
PlaceItemsAbort(order_items, k, items) ==
    IF k > Len(order_items) THEN items
    ELSE IF order_items[k][1] \notin DOMAIN products THEN items
    ELSE PlaceItemsAbort(order_items, k + 1,
                         add_item(items, order_items[k][1], order_items[k][2]))

\* PlaceItems adding every line item, registered or not.
RECURSIVE PlaceItemsUnfiltered(_, _, _)
PlaceItemsUnfiltered(order_items, k, items) ==
    IF k > Len(order_items) THEN items
    ELSE PlaceItemsUnfiltered(order_items, k + 1,
                              add_item(items, order_items[k][1], order_items[k][2]))

\* The loop of place_order over order_items[k..]: registered products are
\* added to the new order's items, the others are skipped with a warning.
RECURSIVE PlaceItems(_, _, _)
PlaceItems(order_items, k, items) ==
    IF k > Len(order_items) THEN items
    ELSE LET product_id == order_items[k][1]
             quantity == order_items[k][2]
         IN PlaceItems(order_items, k + 1,
                       IF product_id \in DOMAIN products
                       THEN add_item(items, product_id, quantity)
                       ELSE items)

\* Order.__init__
NewOrder(order_id, customer) ==
    [order_id |-> order_id, customer |-> customer, items |-> <<>>,
     status |-> "Pending"]

\* place_order numbering the order by len(self.orders), without the + 1.
place_order_len_id(customer, order_items) ==
    LET order_id == OrderId(Cardinality(DOMAIN orders))
        new_order == [NewOrder(order_id, customer) EXCEPT
                         !.items = PlaceItems(order_items, 1, <<>>)]
    IN /\ orders' = Put(orders, order_id, new_order)
       /\ last' = Call("place_order", <<customer, order_items>>, order_id)
       /\ UNCHANGED <<products, locations, inventory, deliveries>>

\* FoodSupplyChain.place_order; order_items is the caller's dict in its
\* iteration order.  Returns the new order (here: its id).
place_order(customer, order_items) ==
    LET order_id == OrderId(Cardinality(DOMAIN orders) + 1)
        new_order == [NewOrder(order_id, customer) EXCEPT
                         !.items = PlaceItems(order_items, 1, <<>>)]
    IN /\ orders' = Put(orders, order_id, new_order)
       /\ last' = Call("place_order", <<customer, order_items>>, order_id)
       /\ UNCHANGED <<products, locations, inventory, deliveries>>

\* FindInventory without the quantity test: the first InventoryItem of the
\* product, whatever it holds.
FindInventoryAnyStock(inv, product_id, quantity_needed) ==
    LET S == {i \in 1..Len(inv) : inv[i].product_id = product_id}
    IN IF S = {} THEN 0 ELSE CHOOSE i \in S : \A j \in S : i <= j

\* FindInventory taking the last sufficient InventoryItem instead of the first.
FindInventoryLast(inv, product_id, quantity_needed) ==
    LET S == {i \in 1..Len(inv) : /\ inv[i].product_id = product_id
                                   /\ inv[i].quantity >= quantity_needed}
    IN IF S = {} THEN 0 ELSE CHOOSE i \in S : \A j \in S : i >= j

\* The product's quantity summed over the items inv[i..].
RECURSIVE ProductStock(_, _, _)
ProductStock(inv, product_id, i) ==
    IF i > Len(inv) THEN 0
    ELSE (IF inv[i].product_id = product_id THEN inv[i].quantity ELSE 0)
         + ProductStock(inv, product_id, i + 1)

\* FindInventory testing the product's stock over all locations: the first
\* InventoryItem of the product when the locations together hold enough.
FindInventoryByTotal(inv, product_id, quantity_needed) ==
    LET S == {i \in 1..Len(inv) : inv[i].product_id = product_id}
    IN IF S = {} \/ ProductStock(inv, product_id, 1) < quantity_needed
       THEN 0 ELSE CHOOSE i \in S : \A j \in S : i <= j

\* The inner scan of fulfill_order: the position of the first InventoryItem,
\* in the inventory dict's order, of that product with quantity >=
\* quantity_needed; 0 when there is none (found_inventory stays None).
FindInventory(inv, product_id, quantity_needed) ==
    LET S == {i \in 1..Len(inv) : /\ inv[i].product_id = product_id
                                   /\ inv[i].quantity >= quantity_needed}
    IN IF S = {} THEN 0 ELSE CHOOSE i \in S : \A j \in S : i <= j

\* FulfillItems as a transaction: nothing is shipped unless every line item
\* of items[k..] finds sufficient stock.
RECURSIVE FulfillItemsAtomic(_, _, _)
FulfillItemsAtomic(items, k, inv) ==
    LET enough(j) ==
            \E i \in 1..Len(inv) : /\ inv[i].product_id = items[j][1]
                                   /\ inv[i].quantity >= items[j][2]
    IN IF k > Len(items) THEN [inventory |-> inv, ret |-> "True"]
       ELSE IF \E j \in k..Len(items) : ~enough(j)
       THEN [inventory |-> inv, ret |-> "False"]
       ELSE LET S == {i \in 1..Len(inv) : /\ inv[i].product_id = items[k][1]
                                          /\ inv[i].quantity >= items[k][2]}
                found == CHOOSE i \in S : \A j \in S : i <= j
            IN FulfillItemsAtomic(items, k + 1,
                   [inv EXCEPT ![found].quantity = @ - items[k][2]])

\* The loop of fulfill_order, refusing an order that has no line items.
RECURSIVE FulfillItemsNonEmpty(_, _, _)
FulfillItemsNonEmpty(items, k, inv) ==
    IF Len(items) = 0 THEN [inventory |-> inv, ret |-> "False"]
    ELSE IF k > Len(items) THEN [inventory |-> inv, ret |-> "True"]
    ELSE LET product_id == items[k][1]
             quantity_needed == items[k][2]
             found == FindInventory(inv, product_id, quantity_needed)
         IN IF found = 0
            THEN [inventory |-> inv,
                  ret |-> IF product_id \in DOMAIN products
                          THEN "False" ELSE "KeyError"]
            ELSE LET shipped == [inv EXCEPT ![found].quantity = @ - quantity_needed]
                 IN IF product_id \in DOMAIN products
                    THEN FulfillItemsNonEmpty(items, k + 1, shipped)
                    ELSE [inventory |-> shipped, ret |-> "KeyError"]

\* The outer loop of fulfill_order over the order's items[k..], on inventory
\* inv: the inventory it leaves and how it ends: "True" (every line item
\* served), "False" (insufficient stock), "KeyError" (the products lookup of
\* the message fails).
RECURSIVE FulfillItems(_, _, _)
FulfillItems(items, k, inv) ==
    IF k > Len(items) THEN [inventory |-> inv, ret |-> "True"]
    ELSE LET product_id == items[k][1]
             quantity_needed == items[k][2]
             found == FindInventory(inv, product_id, quantity_needed)
         IN IF found = 0
            THEN [inventory |-> inv,
                  ret |-> IF product_id \in DOMAIN products
                          THEN "False" ELSE "KeyError"]
            ELSE LET shipped == [inv EXCEPT ![found].quantity = @ - quantity_needed]
                 IN IF product_id \in DOMAIN products
                    THEN FulfillItems(items, k + 1, shipped)
                    ELSE [inventory |-> shipped, ret |-> "KeyError"]

\* fulfill_order that returns success without order.update_status("Fulfilled").
fulfill_order_no_status(order_id) ==
    IF order_id \notin DOMAIN orders
    THEN /\ last' = Call("fulfill_order", <<order_id>>, "False")
         /\ UNCHANGED registry
    ELSE LET r == FulfillItems(orders[order_id].items, 1, inventory)
         IN /\ inventory' = r.inventory
            /\ last' = Call("fulfill_order", <<order_id>>, r.ret)
            /\ UNCHANGED <<products, locations, orders, deliveries>>

\* fulfill_order that marks the order "Fulfilled" however the loop ended.
fulfill_order_always_fulfilled(order_id) ==
    IF order_id \notin DOMAIN orders
    THEN /\ last' = Call("fulfill_order", <<order_id>>, "False")
         /\ UNCHANGED registry
    ELSE LET r == FulfillItems(orders[order_id].items, 1, inventory)
         IN /\ inventory' = r.inventory
            /\ orders' = [orders EXCEPT ![order_id].status = "Fulfilled"]
            /\ last' = Call("fulfill_order", <<order_id>>, r.ret)
            /\ UNCHANGED <<products, locations, deliveries>>

\* fulfill_order that puts the order back to "Pending" when the loop fails.
fulfill_order_reset_on_failure(order_id) ==
    IF order_id \notin DOMAIN orders
    THEN /\ last' = Call("fulfill_order", <<order_id>>, "False")
         /\ UNCHANGED registry
    ELSE LET r == FulfillItems(orders[order_id].items, 1, inventory)
         IN /\ inventory' = r.inventory
            /\ orders' = [orders EXCEPT ![order_id].status =
                              IF r.ret = "True" THEN "Fulfilled" ELSE "Pending"]
            /\ last' = Call("fulfill_order", <<order_id>>, r.ret)
            /\ UNCHANGED <<products, locations, deliveries>>

\* fulfill_order that ships nothing for an order that is "Fulfilled" already.
fulfill_order_once(order_id) ==
    IF order_id \notin DOMAIN orders
    THEN /\ last' = Call("fulfill_order", <<order_id>>, "False")
         /\ UNCHANGED registry
    ELSE IF orders[order_id].status = "Fulfilled"
    THEN /\ last' = Call("fulfill_order", <<order_id>>, "True")
         /\ UNCHANGED registry
    ELSE LET r == FulfillItems(orders[order_id].items, 1, inventory)
         IN /\ inventory' = r.inventory
            /\ orders' = IF r.ret = "True"
                         THEN [orders EXCEPT ![order_id].status = "Fulfilled"]
                         ELSE orders
            /\ last' = Call("fulfill_order", <<order_id>>, r.ret)
            /\ UNCHANGED <<products, locations, deliveries>>

\* FoodSupplyChain.fulfill_order
fulfill_order(order_id) ==
    IF order_id \notin DOMAIN orders
    THEN /\ last' = Call("fulfill_order", <<order_id>>, "False")
         /\ UNCHANGED registry
    ELSE LET r == FulfillItems(orders[order_id].items, 1, inventory)
         IN /\ inventory' = r.inventory
            /\ orders' = IF r.ret = "True"
                         THEN [orders EXCEPT ![order_id].status = "Fulfilled"]
                         ELSE orders
            /\ last' = Call("fulfill_order", <<order_id>>, r.ret)
            /\ UNCHANGED <<products, locations, deliveries>>

\* Delivery.__init__
NewDelivery(delivery_id, order_id) ==
    [delivery_id |-> delivery_id, order |-> order_id, status |-> "Scheduled"]

\* schedule_delivery without the test of the order's status.
schedule_delivery_unchecked(order_id) ==
    IF order_id \notin DOMAIN orders
    THEN /\ last' = Call("schedule_delivery", <<order_id>>, "None")
         /\ UNCHANGED registry
    ELSE LET delivery_id == DeliveryId(Cardinality(DOMAIN deliveries) + 1)
         IN /\ deliveries' = Put(deliveries, delivery_id,
                                 NewDelivery(delivery_id, order_id))
            /\ last' = Call("schedule_delivery", <<order_id>>, delivery_id)
            /\ UNCHANGED <<products, locations, inventory, orders>>

\* schedule_delivery numbering the delivery after its order ("DEL-" and the
\* order's number), so that an order has one delivery id.
schedule_delivery_order_id(order_id) ==
    IF order_id \notin DOMAIN orders
    THEN /\ last' = Call("schedule_delivery", <<order_id>>, "None")
         /\ UNCHANGED registry
    ELSE IF orders[order_id].status # "Fulfilled"
    THEN /\ last' = Call("schedule_delivery", <<order_id>>, "None")
         /\ UNCHANGED registry
    ELSE LET n == CHOOSE n \in 1..Cardinality(DOMAIN orders) : OrderId(n) = order_id
             delivery_id == DeliveryId(n)
         IN /\ deliveries' = Put(deliveries, delivery_id,
                                 NewDelivery(delivery_id, order_id))
            /\ last' = Call("schedule_delivery", <<order_id>>, delivery_id)
            /\ UNCHANGED <<products, locations, inventory, orders>>

\* FoodSupplyChain.schedule_delivery.  Returns the new delivery (here: its
\* id) or None.
schedule_delivery(order_id) ==
    IF order_id \notin DOMAIN orders
    THEN /\ last' = Call("schedule_delivery", <<order_id>>, "None")
         /\ UNCHANGED registry
    ELSE IF orders[order_id].status # "Fulfilled"
    THEN /\ last' = Call("schedule_delivery", <<order_id>>, "None")
         /\ UNCHANGED registry
    ELSE LET delivery_id == DeliveryId(Cardinality(DOMAIN deliveries) + 1)
         IN /\ deliveries' = Put(deliveries, delivery_id,
                                 NewDelivery(delivery_id, order_id))
            /\ last' = Call("schedule_delivery", <<order_id>>, delivery_id)
            /\ UNCHANGED <<products, locations, inventory, orders>>

\* update_delivery_status that only lets a "Scheduled" delivery change.
update_delivery_status_once(delivery_id, new_status) ==
    /\ IF delivery_id \in DOMAIN deliveries
       THEN deliveries' = [deliveries EXCEPT ![delivery_id].status =
                              IF @ = "Scheduled" THEN new_status ELSE @]
       ELSE UNCHANGED deliveries
    /\ last' = Call("update_delivery_status", <<delivery_id, new_status>>, "None")
    /\ UNCHANGED <<products, locations, inventory, orders>>

\* FoodSupplyChain.update_delivery_status
update_delivery_status(delivery_id, new_status) ==
    /\ IF delivery_id \in DOMAIN deliveries
       THEN deliveries' = [deliveries EXCEPT ![delivery_id].status = new_status]
       ELSE UNCHANGED deliveries
    /\ last' = Call("update_delivery_status", <<delivery_id, new_status>>, "None")
    /\ UNCHANGED <<products, locations, inventory, orders>>

\* FoodSupplyChain.track_delivery
track_delivery(delivery_id) ==
    IF delivery_id \in DOMAIN deliveries THEN deliveries[delivery_id] ELSE "None"

---------------------------------------------------------------------------
\* What the callers pass.

\* The Product and Location objects the callers register.
Products ==
    { [product_id |-> "PROD-001", name |-> "Apple"],
      [product_id |-> "PROD-002", name |-> "Banana"] }
Locations ==
    { [location_id |-> "LOC-002", name |-> "Warehouse X"],
      [location_id |-> "LOC-003", name |-> "Retailer Y"] }
ProductIds == {product.product_id : product \in Products}
AddQuantities == {1, 2}
DeliveryStatuses == {"Out for Delivery"}

\* The guards that keep the model finite.
QtyBounded(inv) == \A i \in 1..Len(inv) : inv[i].quantity <= MaxQty
OrdersBelow(n) == Cardinality(DOMAIN orders) < n
\* A schedule_delivery call is let through when it registers nothing or
\* fewer than n deliveries are registered.
DeliveriesBelow(n, order_id) ==
    IF order_id \in DOMAIN orders
    THEN orders[order_id].status = "Fulfilled" => Cardinality(DOMAIN deliveries) < n
    ELSE TRUE

---------------------------------------------------------------------------
\* Spec: the order and delivery workflow over a small stock (one product
\* registered, one location); orders may name the unregistered PROD-002.

\* The (customer, order_items) pairs passed to place_order.
FlowOrders ==
    { <<"Alice", <<>>>>,
      <<"Alice", <<<<"PROD-001", 1>>>>>>,
      <<"Alice", <<<<"PROD-002", 1>>>>>> }

Next ==
    \/ \E product \in Products :
          product.product_id = "PROD-001" /\ add_product(product)
    \/ \E location \in Locations :
          location.location_id = "LOC-002" /\ add_location(location)
    \/ \E q \in AddQuantities :
          add_inventory("PROD-001", "LOC-002", q) /\ QtyBounded(inventory')
    \/ \E o \in FlowOrders :
          OrdersBelow(MaxOrders) /\ place_order(o[1], o[2])
    \/ \E n \in 1..(MaxOrders + 1) :
          fulfill_order(OrderId(n)) /\ QtyBounded(inventory')
    \/ \E n \in 1..(MaxOrders + 1) :
          DeliveriesBelow(MaxDeliveries, OrderId(n)) /\ schedule_delivery(OrderId(n))
    \/ \E n \in 1..(MaxDeliveries + 1), s \in DeliveryStatuses :
          update_delivery_status(DeliveryId(n), s)

Spec == Init /\ [][Next]_vars

---------------------------------------------------------------------------
\* SpecStock: placing and fulfilling orders against stock of two products at
\* two locations.  Deliveries neither read nor write the stock; they are
\* exercised under Spec.

StockOrderItems ==
    { <<<<"PROD-001", 2>>>>,
      <<<<"PROD-001", 1>>, <<"PROD-002", 2>>>>,
      <<<<"PROD-002", -1>>, <<"PROD-001", 1>>>> }

\* The (product, location) pairs stocked under SpecStock.
StockKeys ==
    { <<"PROD-001", "LOC-002">>, <<"PROD-001", "LOC-003">>,
      <<"PROD-002", "LOC-002">> }

NextStock ==
    \/ \E product \in Products : add_product(product)
    \/ \E location \in Locations : add_location(location)
    \/ \E k \in StockKeys, q \in AddQuantities :
          add_inventory(k[1], k[2], q) /\ QtyBounded(inventory')
    \/ \E items \in StockOrderItems :
          OrdersBelow(MaxStockOrders) /\ place_order("Alice", items)
    \/ \E n \in 1..(MaxStockOrders + 1) :
          fulfill_order(OrderId(n)) /\ QtyBounded(inventory')

SpecStock == Init /\ [][NextStock]_vars

---------------------------------------------------------------------------
\* SpecRegistry: registering products and locations, also under an id that
\* is taken by another object, and stocking them.

RegistryProducts ==
    Products \cup { [product_id |-> "PROD-001", name |-> "Pear"] }
RegistryLocations ==
    Locations \cup { [location_id |-> "LOC-002", name |-> "Farm A"] }

NextRegistry ==
    \/ \E product \in RegistryProducts : add_product(product)
    \/ \E location \in RegistryLocations : add_location(location)
    \/ \E k \in StockKeys, q \in AddQuantities :
          add_inventory(k[1], k[2], q) /\ QtyBounded(inventory')

SpecRegistry == Init /\ [][NextRegistry]_vars

---------------------------------------------------------------------------
\* SpecDelivery: the workflow of Spec with one order at most and deliveries
\* whose status is set to each of three values, "Scheduled" included.

DeliveryStatusInputs == {"Scheduled", "Out for Delivery", "Delivered"}

NextDelivery ==
    \/ \E product \in Products :
          product.product_id = "PROD-001" /\ add_product(product)
    \/ \E location \in Locations :
          location.location_id = "LOC-002" /\ add_location(location)
    \/ \E q \in AddQuantities :
          add_inventory("PROD-001", "LOC-002", q) /\ QtyBounded(inventory')
    \/ \E o \in FlowOrders :
          OrdersBelow(MaxTrackedOrders) /\ place_order(o[1], o[2])
    \/ \E n \in 1..(MaxTrackedOrders + 1) :
          fulfill_order(OrderId(n)) /\ QtyBounded(inventory')
    \/ \E n \in 1..(MaxTrackedOrders + 1) :
          DeliveriesBelow(MaxDeliveries, OrderId(n)) /\ schedule_delivery(OrderId(n))
    \/ \E n \in 1..(MaxDeliveries + 1), s \in DeliveryStatusInputs :
          update_delivery_status(DeliveryId(n), s)

SpecDelivery == Init /\ [][NextDelivery]_vars

---------------------------------------------------------------------------
\* Properties.

\* The step just taken was a call of op.
Called(op) == last'.op = op

\* The order a fulfill_order or schedule_delivery step was called with.
CalledOrder == last'.args[1]

\* C1: with every add_inventory quantity non-negative (AddQuantities), no
\* InventoryItem ever holds a negative quantity: fulfill_order only decrements
\* an item that holds at least the requested quantity, whatever its sign.
C1_InventoryNeverNegative ==
    \A i \in 1..Len(inventory) : inventory[i].quantity >= 0

\* A fulfilment has just succeeded and left an item it served empty.
C1_Witness ==
    /\ last.op = "fulfill_order" /\ last.ret = "True"
    /\ \E k \in 1..Len(orders[last.args[1]].items) :
          /\ orders[last.args[1]].items[k][2] > 0
          /\ \E i \in 1..Len(inventory) :
                /\ inventory[i].product_id = orders[last.args[1]].items[k][1]
                /\ inventory[i].quantity = 0

\* C2: schedule_delivery for an order id that is unregistered, or whose order
\* is not "Fulfilled", returns None and changes nothing in the registry.
C2_ScheduleRefused ==
    [][ (/\ Called("schedule_delivery")
         /\ \/ CalledOrder \notin DOMAIN orders
            \/ orders[CalledOrder].status # "Fulfilled")
        => (last'.ret = "None" /\ UNCHANGED registry) ]_vars

\* schedule_delivery has just been refused for a registered, Pending order
\* while another order is Fulfilled.
C2_Witness ==
    /\ last.op = "schedule_delivery" /\ last.ret = "None"
    /\ last.args[1] \in DOMAIN orders
    /\ orders[last.args[1]].status = "Pending"
    /\ \E o \in DOMAIN orders : orders[o].status = "Fulfilled"

\* C3: a schedule_delivery(order_id) step taken right after a fulfill_order
\* (order_id) that returned True registers and returns a new Delivery that
\* references that order with status "Scheduled", and changes neither the
\* orders nor the inventory nor any other delivery.
C3_ScheduleAfterFulfil ==
    [][ (/\ last.op = "fulfill_order" /\ last.ret = "True"
         /\ Called("schedule_delivery")
         /\ CalledOrder = last.args[1])
        => (/\ last'.ret # "None"
            /\ last'.ret \notin DOMAIN deliveries
            /\ DOMAIN deliveries' = DOMAIN deliveries \cup {last'.ret}
            /\ deliveries'[last'.ret].order = CalledOrder
            /\ deliveries'[last'.ret].status = "Scheduled"
            /\ \A d \in DOMAIN deliveries : deliveries'[d] = deliveries[d]
            /\ orders'[CalledOrder].status = "Fulfilled"
            /\ UNCHANGED <<products, locations, inventory, orders>>) ]_vars

\* Right after a successful fulfill_order of an order with a line item, a
\* schedule_delivery of that order that returns a Delivery can be taken.
C3_Witness ==
    /\ last.op = "fulfill_order" /\ last.ret = "True"
    /\ orders[last.args[1]].items # <<>>
    /\ ENABLED (/\ schedule_delivery(last.args[1])
                /\ last'.ret # "None"
                /\ deliveries'[last'.ret].order = last.args[1])

\* C4: every registered Delivery references a registered order whose status
\* is "Fulfilled".
C4_DeliveriesOfFulfilledOrders ==
    \A d \in DOMAIN deliveries :
        /\ deliveries[d].order \in DOMAIN orders
        /\ orders[deliveries[d].order].status = "Fulfilled"

\* A Delivery is registered while another order is still Pending.
C4_Witness ==
    /\ deliveries # EmptyDict
    /\ \E o \in DOMAIN orders : orders[o].status = "Pending"

\* A fulfill_order step on a registered order, and that order's line items.
FulfilStep == Called("fulfill_order") /\ CalledOrder \in DOMAIN orders
CalledItems == orders[CalledOrder].items

\* The InventoryItems of the line item's product that hold at least its
\* quantity, before the call.
Sufficient(item) ==
    {i \in 1..Len(inventory) : /\ inventory[i].product_id = item[1]
                                /\ inventory[i].quantity >= item[2]}

\* Line item k is reached by the call: every line item before it found
\* sufficient stock.  (The line items of an order name distinct products, so
\* the stock a line item meets is the stock of before the call.)
ReachedItem(k) == \A j \in 1..(k - 1) : Sufficient(CalledItems[j]) # {}

\* The InventoryItems of a product.
ItemsOf(product_id) ==
    {i \in 1..Len(inventory) : inventory[i].product_id = product_id}

\* The call left the keys of the inventory and their order alone.
SameKeys ==
    /\ Len(inventory') = Len(inventory)
    /\ \A i \in 1..Len(inventory) :
          /\ inventory'[i].product_id = inventory[i].product_id
          /\ inventory'[i].location_id = inventory[i].location_id

\* C5: a fulfill_order of a Pending order that reaches a line item k with no
\* single sufficient InventoryItem returns False; the stock of each earlier
\* line item's product stays decremented by that line item, the stock of the
\* products of line item k and of the later ones is untouched, and the order
\* stays "Pending".
C5_PartialFailurePersists ==
    [][ (FulfilStep /\ orders[CalledOrder].status = "Pending")
        => \A k \in 1..Len(CalledItems) :
              (ReachedItem(k) /\ Sufficient(CalledItems[k]) = {})
              => /\ last'.ret = "False"
                 /\ orders' = orders
                 /\ SameKeys
                 /\ \A j \in 1..(k - 1) :
                       ProductStock(inventory', CalledItems[j][1], 1)
                         = ProductStock(inventory, CalledItems[j][1], 1)
                           - CalledItems[j][2]
                 /\ \A j \in k..Len(CalledItems) :
                       \A i \in ItemsOf(CalledItems[j][1]) :
                          inventory'[i] = inventory[i] ]_vars

\* A failed fulfill_order of the Pending order {PROD-001: 1, PROD-002: 2}
\* has just left the only PROD-001 item at 1: the item held 2 before the
\* call (had it held less than 1 it would hold that still), and the call
\* shipped the first line item before it failed.
C5_Witness ==
    /\ last = Call("fulfill_order", <<"ORD-1">>, "False")
    /\ "ORD-1" \in DOMAIN orders
    /\ orders["ORD-1"].items = <<<<"PROD-001", 1>>, <<"PROD-002", 2>>>>
    /\ orders["ORD-1"].status = "Pending"
    /\ Cardinality(ItemsOf("PROD-001")) = 1
    /\ \A i \in ItemsOf("PROD-001") : inventory[i].quantity = 1

\* C6: every line item (p, n) a fulfill_order serves decrements the first
\* InventoryItem, in the inventory's insertion order, of product p that holds
\* at least n, and leaves every other InventoryItem of p as it was.
C6_FirstFit ==
    [][ FulfilStep
        => \A k \in 1..Len(CalledItems) :
              (ReachedItem(k) /\ Sufficient(CalledItems[k]) # {})
              => LET first == CHOOSE i \in Sufficient(CalledItems[k]) :
                                 \A j \in Sufficient(CalledItems[k]) : i <= j
                 IN /\ SameKeys
                    /\ inventory'[first].quantity
                         = inventory[first].quantity - CalledItems[k][2]
                    /\ \A i \in ItemsOf(CalledItems[k][1]) \ {first} :
                          inventory'[i] = inventory[i] ]_vars

\* The order {PROD-001: 2} has just been fulfilled with two PROD-001 items
\* in stock: the first is empty and the second still holds 2, so both held
\* enough and the first was taken.
C6_Witness ==
    /\ last = Call("fulfill_order", <<"ORD-1">>, "True")
    /\ orders["ORD-1"].items = <<<<"PROD-001", 2>>>>
    /\ \E i, j \in ItemsOf("PROD-001") :
          /\ i < j
          /\ inventory[i].quantity = 0
          /\ inventory[j].quantity = 2

\* The quantity an order's line items request of a product.
Requested(items, product_id) ==
    LET S == {k \in 1..Len(items) : items[k][1] = product_id}
    IN IF S = {} THEN 0 ELSE items[CHOOSE k \in S : TRUE][2]

\* C7: a line item (p, n) that fulfill_order serves changes exactly one
\* InventoryItem of p, by n; a line item it reaches with no single
\* sufficient InventoryItem makes the call fail with the items of p
\* untouched, whatever the locations hold together; after a successful call
\* each product's stock over all locations is down by the quantity the order
\* requests of it (0 for the products it does not name).
C7_SingleLocation ==
    [][ FulfilStep
        => /\ \A k \in 1..Len(CalledItems) :
                 ReachedItem(k)
                 => IF Sufficient(CalledItems[k]) = {}
                    THEN /\ last'.ret = "False"
                         /\ \A i \in ItemsOf(CalledItems[k][1]) :
                               inventory'[i] = inventory[i]
                    ELSE \E i \in ItemsOf(CalledItems[k][1]) :
                            /\ inventory'[i].quantity
                                 = inventory[i].quantity - CalledItems[k][2]
                            /\ \A j \in ItemsOf(CalledItems[k][1]) \ {i} :
                                  inventory'[j] = inventory[j]
           /\ last'.ret = "True"
              => /\ SameKeys
                 /\ \A p \in ProductIds :
                       ProductStock(inventory', p, 1)
                         = ProductStock(inventory, p, 1)
                           - Requested(CalledItems, p) ]_vars

\* fulfill_order of the order {PROD-001: 2} has just failed although two
\* locations hold one PROD-001 each.
C7_Witness ==
    /\ last = Call("fulfill_order", <<"ORD-1">>, "False")
    /\ "ORD-1" \in DOMAIN orders
    /\ orders["ORD-1"].items = <<<<"PROD-001", 2>>>>
    /\ Cardinality(ItemsOf("PROD-001")) = 2
    /\ \A i \in ItemsOf("PROD-001") : inventory[i].quantity = 1

\* C8: fulfill_order returns True exactly when the order is registered and
\* each of its line items finds a sufficient InventoryItem; then the order is
\* "Fulfilled".  When it returns False the order's status is what it was, and
\* for an unregistered order_id the registry is unchanged.
C8_FulfilOutcome ==
    [][ Called("fulfill_order")
        => /\ last'.ret \in {"True", "False"}
           /\ last'.ret = "True"
              <=> /\ CalledOrder \in DOMAIN orders
                  /\ \A k \in 1..Len(CalledItems) : Sufficient(CalledItems[k]) # {}
           /\ last'.ret = "True" => orders'[CalledOrder].status = "Fulfilled"
           /\ (last'.ret = "False" /\ CalledOrder \in DOMAIN orders)
              => orders' = orders
           /\ CalledOrder \notin DOMAIN orders => UNCHANGED registry ]_vars

\* A two-line order has just been fulfilled.
C8_Witness ==
    /\ last.op = "fulfill_order" /\ last.ret = "True"
    /\ Len(orders[last.args[1]].items) = 2
    /\ orders[last.args[1]].status = "Fulfilled"

\* C9: the orders registered are ORD-1 .. ORD-n, n the number of place_order
\* calls made; a place_order step returns and registers the order with the
\* next id, ORD-(n+1), which was not registered before, and leaves every
\* registered order as it was; no other step registers or removes an order.
C9_OrderIdsSequential ==
    [][ LET n == Cardinality(DOMAIN orders)
        IN /\ DOMAIN orders = {OrderId(k) : k \in 1..n}
           /\ IF Called("place_order")
              THEN /\ last'.ret = OrderId(n + 1)
                   /\ last'.ret \notin DOMAIN orders
                   /\ DOMAIN orders' = DOMAIN orders \cup {last'.ret}
                   /\ orders'[last'.ret].order_id = last'.ret
                   /\ orders'[last'.ret].customer = last'.args[1]
                   /\ \A o \in DOMAIN orders : orders'[o] = orders[o]
              ELSE DOMAIN orders' = DOMAIN orders ]_vars

\* The second place_order, of an order left without line items, has just
\* returned ORD-2, after ORD-1 was placed, fulfilled and given a delivery.
C9_Witness ==
    /\ last.op = "place_order" /\ last.ret = "ORD-2"
    /\ DOMAIN orders = {"ORD-1", "ORD-2"}
    /\ orders["ORD-2"].items = <<>>
    /\ last.args[2] # <<>>
    /\ orders["ORD-1"].status = "Fulfilled"
    /\ deliveries # EmptyDict

\* C10: the deliveries registered are DEL-1 .. DEL-k, k the number of
\* schedule_delivery calls that returned a Delivery; such a call returns and
\* registers the Delivery with the next id, DEL-(k+1), for its order and
\* leaves every registered Delivery as it was, also when the order has a
\* Delivery already; a call that returns None, and every other step,
\* registers no Delivery.
C10_DeliveryIdsSequential ==
    [][ LET k == Cardinality(DOMAIN deliveries)
        IN /\ DOMAIN deliveries = {DeliveryId(j) : j \in 1..k}
           /\ IF Called("schedule_delivery") /\ last'.ret # "None"
              THEN /\ last'.ret = DeliveryId(k + 1)
                   /\ last'.ret \notin DOMAIN deliveries
                   /\ DOMAIN deliveries' = DOMAIN deliveries \cup {last'.ret}
                   /\ deliveries'[last'.ret].delivery_id = last'.ret
                   /\ deliveries'[last'.ret].order = CalledOrder
                   /\ \A d \in DOMAIN deliveries : deliveries'[d] = deliveries[d]
              ELSE DOMAIN deliveries' = DOMAIN deliveries
           /\ (/\ Called("schedule_delivery")
               /\ CalledOrder \in DOMAIN orders
               /\ orders[CalledOrder].status = "Fulfilled")
              => last'.ret # "None" ]_vars

\* A second schedule_delivery of the same Fulfilled order has just returned
\* DEL-2, and DEL-1 is still that order's first delivery.
C10_Witness ==
    /\ last = Call("schedule_delivery", <<"ORD-1">>, "DEL-2")
    /\ DOMAIN deliveries = {"DEL-1", "DEL-2"}
    /\ deliveries["DEL-1"].order = "ORD-1"
    /\ deliveries["DEL-2"].order = "ORD-1"

\* C11: add_product (add_location) of an object whose id is registered
\* leaves the registry unchanged, the entry under the id being the object
\* registered first; with an unused id it stores exactly that object under
\* its id and changes nothing else.
C11_RegisterOnce ==
    [][ /\ Called("add_product")
           => LET product == last'.args[1]
              IN IF product.product_id \in DOMAIN products
                 THEN UNCHANGED registry
                 ELSE /\ DOMAIN products'
                           = DOMAIN products \cup {product.product_id}
                      /\ products'[product.product_id] = product
                      /\ \A p \in DOMAIN products : products'[p] = products[p]
                      /\ UNCHANGED <<locations, inventory, orders, deliveries>>
        /\ Called("add_location")
           => LET location == last'.args[1]
              IN IF location.location_id \in DOMAIN locations
                 THEN UNCHANGED registry
                 ELSE /\ DOMAIN locations'
                           = DOMAIN locations \cup {location.location_id}
                      /\ locations'[location.location_id] = location
                      /\ \A l \in DOMAIN locations : locations'[l] = locations[l]
                      /\ UNCHANGED <<products, inventory, orders, deliveries>>
      ]_vars

\* add_product of the Pear under PROD-001 has just been made with the Apple
\* registered under that id, and the Apple is still the entry; LOC-002 is
\* the warehouse although the farm was offered under that id or not.
C11_Witness ==
    /\ last = Call("add_product",
                   <<[product_id |-> "PROD-001", name |-> "Pear"]>>, "None")
    /\ "PROD-001" \in DOMAIN products
    /\ products["PROD-001"].name = "Apple"
    /\ Cardinality(DOMAIN products) = 2
    /\ inventory # <<>>

\* C12: add_inventory(p, l, q) for registered p and l and a pair without an
\* InventoryItem appends the item (p, l) with quantity q after the existing
\* ones; for a pair with an InventoryItem it adds q to that item's quantity,
\* creates no item and moves none; no other pair's quantity changes.
C12_InventoryAccumulates ==
    [][ (/\ Called("add_inventory")
         /\ last'.args[1] \in DOMAIN products
         /\ last'.args[2] \in DOMAIN locations)
        => LET S == {i \in 1..Len(inventory) :
                        /\ inventory[i].product_id = last'.args[1]
                        /\ inventory[i].location_id = last'.args[2]}
           IN /\ Cardinality(S) <= 1
              /\ \A i \in 1..Len(inventory) \ S : inventory'[i] = inventory[i]
              /\ IF S = {}
                 THEN /\ Len(inventory') = Len(inventory) + 1
                      /\ inventory'[Len(inventory')]
                           = [product_id |-> last'.args[1],
                              location_id |-> last'.args[2],
                              quantity |-> last'.args[3]]
                 ELSE /\ Len(inventory') = Len(inventory)
                      /\ \A i \in S :
                            /\ inventory'[i].product_id = inventory[i].product_id
                            /\ inventory'[i].location_id = inventory[i].location_id
                            /\ inventory'[i].quantity
                                 = inventory[i].quantity + last'.args[3]
      ]_vars

\* add_inventory("PROD-001", "LOC-002", 1) has just left that pair, the
\* first of three in the inventory, at 2: nothing removes stock under
\* SpecRegistry, so the pair was created with 1 and this call added 1.
C12_Witness ==
    /\ last = Call("add_inventory", <<"PROD-001", "LOC-002", 1>>, "None")
    /\ Len(inventory) = 3
    /\ inventory[1] = [product_id |-> "PROD-001", location_id |-> "LOC-002",
                       quantity |-> 2]

\* C13: add_inventory with an unregistered product_id or an unregistered
\* location_id changes nothing in the registry.
C13_InvalidReferenceNoOp ==
    [][ (/\ Called("add_inventory")
         /\ \/ last'.args[1] \notin DOMAIN products
            \/ last'.args[2] \notin DOMAIN locations)
        => (UNCHANGED registry /\ last'.ret = "None") ]_vars

\* add_inventory has just been refused for a registered product at an
\* unregistered location, with stock and an order in the registry.
C13_Witness ==
    /\ last.op = "add_inventory"
    /\ last.args[1] \in DOMAIN products
    /\ last.args[2] \notin DOMAIN locations
    /\ inventory # <<>>
    /\ orders # EmptyDict
    /\ \A i \in 1..Len(inventory) :
          ~(/\ inventory[i].product_id = last.args[1]
            /\ inventory[i].location_id = last.args[2])

\* The line item names a product registered before the call.
RegisteredItem(item) == item[1] \in DOMAIN products

\* C14: place_order always registers and returns an order with status
\* "Pending" whose items are the supplied (product_id, quantity) pairs of
\* registered products, in the supplied order and with the supplied
\* quantities, the pairs of unregistered products being skipped; it changes
\* no inventory quantity.
C14_PlaceOrderPartialSuccess ==
    [][ Called("place_order")
        => /\ last'.ret \in DOMAIN orders'
           /\ orders'[last'.ret].status = "Pending"
           /\ orders'[last'.ret].customer = last'.args[1]
           /\ orders'[last'.ret].items = SelectSeq(last'.args[2], RegisteredItem)
           /\ UNCHANGED <<products, locations, inventory, deliveries>> ]_vars

\* place_order has just been given {PROD-002: -1, PROD-001: 1} with
\* PROD-002 unregistered, and the order holds the PROD-001 line alone; there
\* is stock in the inventory.
C14_Witness ==
    /\ last.op = "place_order"
    /\ last.args[2] = <<<<"PROD-002", -1>>, <<"PROD-001", 1>>>>
    /\ "PROD-002" \notin DOMAIN products
    /\ orders[last.ret].items = <<<<"PROD-001", 1>>>>
    /\ orders[last.ret].status = "Pending"
    /\ inventory # <<>>

\* C15: every registered order is "Pending" or "Fulfilled" and stays
\* registered; an order is "Pending" when place_order registers it; an
\* order's status changes only from "Pending" to "Fulfilled", and only in a
\* fulfill_order of that order that returns True; a "Fulfilled" order stays
\* "Fulfilled" in every step, a failing fulfill_order of it included.
C15_LinearOrderStatus ==
    [][ /\ \A o \in DOMAIN orders :
              /\ orders[o].status \in {"Pending", "Fulfilled"}
              /\ o \in DOMAIN orders'
              /\ orders'[o].status # orders[o].status
                 => /\ orders[o].status = "Pending"
                    /\ orders'[o].status = "Fulfilled"
                    /\ last' = Call("fulfill_order", <<o>>, "True")
        /\ \A o \in DOMAIN orders' \ DOMAIN orders :
              orders'[o].status = "Pending" ]_vars

\* A fulfill_order of a "Fulfilled" order has just returned False, and the
\* order is still "Fulfilled".
C15_Witness ==
    /\ last.op = "fulfill_order" /\ last.ret = "False"
    /\ last.args[1] \in DOMAIN orders
    /\ orders[last.args[1]].status = "Fulfilled"

\* C16: update_delivery_status(delivery_id, new_status) of a registered
\* delivery sets that delivery's status to new_status, whatever the status
\* was, and changes nothing else of that delivery, no other delivery, no
\* order and no stock; of an unregistered delivery_id it changes nothing.
C16_DeliveryStatusOverwrite ==
    [][ Called("update_delivery_status")
        => LET delivery_id == last'.args[1]
               new_status == last'.args[2]
           IN /\ UNCHANGED <<products, locations, inventory, orders>>
              /\ last'.ret = "None"
              /\ IF delivery_id \in DOMAIN deliveries
                 THEN /\ DOMAIN deliveries' = DOMAIN deliveries
                      /\ deliveries'[delivery_id]
                           = [deliveries[delivery_id] EXCEPT !.status = new_status]
                      /\ \A d \in DOMAIN deliveries \ {delivery_id} :
                            deliveries'[d] = deliveries[d]
                 ELSE UNCHANGED deliveries ]_vars

\* DEL-1 has just been set to "Delivered" while DEL-2 of the same order is
\* "Scheduled", the order is "Fulfilled" and there is stock; from there
\* DEL-1 can be set on to "Out for Delivery".
C16_Witness ==
    /\ last = Call("update_delivery_status", <<"DEL-1", "Delivered">>, "None")
    /\ DOMAIN deliveries = {"DEL-1", "DEL-2"}
    /\ deliveries["DEL-1"].status = "Delivered"
    /\ deliveries["DEL-2"].status = "Scheduled"
    /\ orders[deliveries["DEL-1"].order].status = "Fulfilled"
    /\ inventory # <<>>
    /\ ENABLED (/\ update_delivery_status("DEL-1", "Out for Delivery")
                /\ deliveries'["DEL-1"].status = "Out for Delivery")

\* C17: fulfill_order does not look at the order's status.  Called on a
\* "Fulfilled" order whose line items all find sufficient stock it returns
\* True and takes each requested quantity from the stock once more; called
\* again right after a call that returned False it takes the quantity of
\* every line item it serves from the stock again.
C17_StockConsumedAgain ==
    [][ FulfilStep
        => /\ (/\ orders[CalledOrder].status = "Fulfilled"
               /\ \A k \in 1..Len(CalledItems) : Sufficient(CalledItems[k]) # {})
              => /\ last'.ret = "True"
                 /\ \A p \in ProductIds :
                       ProductStock(inventory', p, 1)
                         = ProductStock(inventory, p, 1)
                           - Requested(CalledItems, p)
           /\ last = Call("fulfill_order", <<CalledOrder>>, "False")
              => \A k \in 1..Len(CalledItems) :
                    (ReachedItem(k) /\ Sufficient(CalledItems[k]) # {})
                    => ProductStock(inventory', CalledItems[k][1], 1)
                         = ProductStock(inventory, CalledItems[k][1], 1)
                           - CalledItems[k][2] ]_vars

\* The only order, {PROD-001: 2}, has just been fulfilled and both PROD-001
\* items are empty.  Stock is added in quantities of 1 and 2 and removed by
\* nothing but a successful fulfill_order of this order, which takes 2 from
\* one item: each item gave 2, so the order was fulfilled twice and took 4.
C17_Witness ==
    /\ last = Call("fulfill_order", <<"ORD-1">>, "True")
    /\ DOMAIN orders = {"ORD-1"}
    /\ orders["ORD-1"].items = <<<<"PROD-001", 2>>>>
    /\ Cardinality(ItemsOf("PROD-001")) = 2
    /\ \A i \in ItemsOf("PROD-001") : inventory[i].quantity = 0

\* C18: every inventory item names a registered product and a registered
\* location, every line item of every registered order names a registered
\* product, and no call ends in a KeyError: the products lookup of
\* fulfill_order's insufficient-stock branch always finds its key.
C18_ReferentialIntegrity ==
    /\ \A i \in 1..Len(inventory) :
          /\ inventory[i].product_id \in DOMAIN products
          /\ inventory[i].location_id \in DOMAIN locations
    /\ \A o \in DOMAIN orders :
          \A k \in 1..Len(orders[o].items) :
             orders[o].items[k][1] \in DOMAIN products
    /\ last.ret # "KeyError"

\* fulfill_order has just taken its insufficient-stock branch, where it looks
\* the product up, for an order with line items while stock is registered.
C18_Witness ==
    /\ last = Call("fulfill_order", <<"ORD-1">>, "False")
    /\ "ORD-1" \in DOMAIN orders
    /\ orders["ORD-1"].items # <<>>
    /\ inventory # <<>>

\* C19: fulfill_order of an order without line items returns True, sets the
\* order's status to "Fulfilled" and leaves the inventory as it is, whatever
\* the inventory holds; a schedule_delivery of that order made right after it
\* registers and returns a Delivery for the order.
C19_EmptyOrderFulfilled ==
    [][ /\ (FulfilStep /\ CalledItems = <<>>)
           => /\ last'.ret = "True"
              /\ orders'[CalledOrder].status = "Fulfilled"
              /\ inventory' = inventory
        /\ (/\ Called("schedule_delivery")
            /\ last = Call("fulfill_order", <<CalledOrder>>, "True")
            /\ CalledOrder \in DOMAIN orders
            /\ orders[CalledOrder].items = <<>>)
           => /\ last'.ret \in DOMAIN deliveries' \ DOMAIN deliveries
              /\ deliveries'[last'.ret] = NewDelivery(last'.ret, CalledOrder) ]_vars

\* With no product registered and an empty inventory, two orders without
\* line items (placed with no items, or with product ids that were not
\* registered) have both been fulfilled, and a delivery has just been
\* scheduled for the second.
C19_Witness ==
    /\ inventory = <<>>
    /\ DOMAIN products = {}
    /\ DOMAIN orders = {"ORD-1", "ORD-2"}
    /\ \A o \in DOMAIN orders :
          orders[o].items = <<>> /\ orders[o].status = "Fulfilled"
    /\ last = Call("schedule_delivery", <<"ORD-2">>, "DEL-1")
    /\ "DEL-1" \in DOMAIN deliveries
    /\ deliveries["DEL-1"].order = "ORD-2"

===========================================================================
